---- MODULE Spec2Model ----
(***************************************************************************)
(* Model of the research agent graph of backend/src/agent/graph.py:        *)
(* generate_query -> (fan-out) web_research -> reflection ->               *)
(* evaluate_research -> {web_research | finalize_answer} -> END.           *)
(* Texts are sequences of string tokens; the external calls (the language  *)
(* model and the grounded search) are nondeterministic choices over the    *)
(* outcomes they can produce.                                              *)
(***************************************************************************)
EXTENDS Integers, Sequences, FiniteSets, TLC

VARIABLES
    pc,                   \* position of the run in the graph
    messages,             \* OverallState.messages (conversation)
    max_research_loops,   \* configured maximum number of loops
    query_list,           \* QueryGenerationState.query_list
    tasks,                \* the Send objects of the current batch
    writes,               \* outputs of returned workers awaiting the join
    search_query,         \* OverallState.search_query (executed queries)
    web_research_result,  \* OverallState.web_research_result
    sources_gathered,     \* OverallState.sources_gathered
    research_loop_count,  \* OverallState.research_loop_count
    is_sufficient,        \* ReflectionState.is_sufficient
    knowledge_gap,        \* ReflectionState.knowledge_gap
    follow_up_queries,    \* ReflectionState.follow_up_queries
    number_of_ran_queries,\* ReflectionState.number_of_ran_queries
    hist                  \* history of the run (observations only)

vars == <<pc, messages, max_research_loops, query_list, tasks, writes,
          search_query, web_research_result, sources_gathered,
          research_loop_count, is_sufficient, knowledge_gap,
          follow_up_queries, number_of_ran_queries, hist>>

----------------------------------------------------------------------------
(* Bounds of the model *)

\* longest query list the planner or the evaluator model returns
MaxBatch == 2
\* largest configured max_research_loops
MaxLoops == 2
\* most research tasks dispatched in one run
MaxTasks == 3

\* research_topic[:100]
TopicLimit == 100

----------------------------------------------------------------------------
(* Helpers on texts *)

Digits == <<"0", "1", "2", "3", "4", "5", "6", "7", "8", "9">>

\* str(n) for a natural number, as a sequence of digit tokens
RECURSIVE ToStr(_)
ToStr(n) == IF n < 10 THEN <<Digits[n + 1]>>
            ELSE ToStr(n \div 10) \o <<Digits[(n % 10) + 1]>>

\* s[:n] of Python
Truncate(s, n) == IF Len(s) <= n THEN s ELSE SubSeq(s, 1, n)

\* sequences over S of length lo..hi
SeqsOf(S, lo, hi) == UNION {[1..n -> S] : n \in lo..hi}

Max(a, b) == IF a >= b THEN a ELSE b

----------------------------------------------------------------------------
(* Inputs *)

\* the user's question, as a sequence of characters
Topics == { <<>>,
            [i \in 1..(TopicLimit + 1) |-> IF i <= TopicLimit THEN "x" ELSE "y"] }

\* query lists the planner's language model may return: qa, qb, qa, ...
QueryLists ==
    { [i \in 1..n |-> IF i % 2 = 1 THEN <<"qa">> ELSE <<"qb">>] : n \in 0..MaxBatch }

\* numbers of grounding chunks a grounded search response may carry
ChunkCounts == {1}

\* query strings the evaluator's language model may propose
FollowUpTexts == { <<"qc">> }

\* exceptions of the external calls: class and str(error)
Errors == { [cls |-> "ResourceExhausted", detail |-> "429 quota"],
            [cls |-> "GoogleAPIError", detail |-> "503 unavailable"],
            [cls |-> "Exception", detail |-> "Traceback internal"] }

\* isinstance(error, cls): ResourceExhausted derives from GoogleAPIError
IsInstance(error, cls) ==
    \/ error.cls = cls
    \/ error.cls = "ResourceExhausted" /\ cls = "GoogleAPIError"
    \/ cls = "Exception"

\* get_research_topic(messages) for a conversation of one human message
get_research_topic(msgs) == msgs[1].content

----------------------------------------------------------------------------
(* Fallback policy *)

\* the service-error branch is tested first, so a quota error takes it too
fallback_message_service_first(error, q) ==
    IF IsInstance(error, "GoogleAPIError")
    THEN <<"Search API Error", "error while searching for:">> \o q
         \o <<"Error details:", error.detail, "research will continue">>
    ELSE <<"Research Error", "unexpected error while researching:">> \o q
         \o <<"research will continue">>

\* handle_api_error: the fallback message for an error and a query
fallback_message(error, q) ==
    IF IsInstance(error, "ResourceExhausted")
    THEN <<"API Quota Exhausted", "quota exceeded while researching:">> \o q
         \o <<"What this means", "Recommendations">>
    ELSE IF IsInstance(error, "GoogleAPIError")
    THEN <<"Search API Error", "error while searching for:">> \o q
         \o <<"Error details:", error.detail, "research will continue">>
    ELSE <<"Research Error", "unexpected error while researching:">> \o q
         \o <<"research will continue">>

\* the failed query is not reported as executed
handle_api_error_no_query(error, q) ==
    [ sources_gathered    |-> <<>>,
      search_query        |-> <<>>,
      web_research_result |-> <<fallback_message(error, q)>> ]

handle_api_error(error, q) ==
    [ sources_gathered    |-> <<>>,
      search_query        |-> <<q>>,
      web_research_result |-> <<fallback_message(error, q)>> ]

----------------------------------------------------------------------------
(* Query planner *)

\* outcomes of structured_llm.invoke in generate_query
PlannerOutcomes ==
    { [raise |-> FALSE, error |-> [cls |-> "none", detail |-> ""], query |-> ql]
        : ql \in QueryLists }
    \cup
    { [raise |-> TRUE, error |-> e, query |-> <<>>] : e \in Errors }

\* the fallback query is the whole topic
generate_query_untruncated(research_topic, o) ==
    IF o.raise THEN <<research_topic>> ELSE o.query

\* the query_list generate_query returns
generate_query_result(research_topic, o) ==
    IF o.raise
    THEN <<Truncate(research_topic, TopicLimit)>>
    ELSE o.query

\* the Send objects of a query list, numbered from base
Sends(ql, base) ==
    [ idx \in 1..Len(ql) |->
        [search_query |-> ql[idx], id |-> base + (idx - 1), returned |-> FALSE] ]

\* continue_to_web_research: one Send per query, id = position in the list
continue_to_web_research(ql) == Sends(ql, 0)

----------------------------------------------------------------------------
(* Research worker *)

\* resolve_urls: the short url of grounding chunk idx for the worker with this id
short_url(id, idx) == <<"id/">> \o ToStr(id) \o <<"-">> \o ToStr(idx)

\* the segments get_citations attributes to the chunks of a response
citation_segments(id, chunks) ==
    [ k \in 1..chunks |->
        [ short_url |-> short_url(id, k - 1),
          value     |-> <<"http://src/">> \o ToStr(k - 1),
          label     |-> "src" ] ]

\* insert_citation_markers: the response text with a marker per segment
RECURSIVE insert_citation_markers(_, _)
insert_citation_markers(text, segs) ==
    IF segs = <<>> THEN text
    ELSE insert_citation_markers(
             text \o <<"[">> \o Head(segs).short_url \o <<"]">>, Tail(segs))

\* outcomes of genai_client.models.generate_content for a query; a response
\* without text is drawn for the first task of a run only
SearchOutcomes(q, id) ==
    { [kind |-> "raise", error |-> e, text |-> <<>>, chunks |-> 0] : e \in Errors }
    \cup
    { [kind |-> "empty", error |-> [cls |-> "none", detail |-> ""],
       text |-> <<>>, chunks |-> 0] }
    \cup
    { [kind |-> "plain", error |-> [cls |-> "none", detail |-> ""],
       text |-> t, chunks |-> 0]
        : t \in { <<"found">> \o q } \cup (IF id = 0 THEN { <<>> } ELSE {}) }
    \cup
    { [kind |-> "grounded", error |-> [cls |-> "none", detail |-> ""],
       text |-> <<"found">> \o q, chunks |-> n] : n \in ChunkCounts }

\* web_research: the state update one worker returns
web_research(task, o) ==
    IF o.kind = "raise"
    THEN handle_api_error(o.error, task.search_query)
    ELSE IF o.kind = "empty"
    THEN handle_api_error([cls |-> "Exception", detail |-> "Empty response from API"],
                          task.search_query)
    ELSE IF o.kind = "plain"
    THEN [ sources_gathered    |-> <<>>,
           search_query        |-> <<task.search_query>>,
           web_research_result |->
               << IF o.text = <<>> THEN <<"No search results available.">>
                  ELSE o.text >> ]
    ELSE [ sources_gathered    |-> citation_segments(task.id, o.chunks),
           search_query        |-> <<task.search_query>>,
           web_research_result |->
               << insert_citation_markers(o.text,
                      citation_segments(task.id, o.chunks)) >> ]

\* the worker took a path through the fallback policy
Degraded(o) == o.kind \in {"raise", "empty"}

----------------------------------------------------------------------------
(* Fan-in *)

\* a channel that keeps the last update only
Reduce_overwrite(old, update) == update

\* operator.add of the list channels of OverallState
Reduce(old, update) == old \o update

\* a race instead of a barrier: the first returned task triggers the edge
SomeReturned(ts) == \E i \in DOMAIN ts : ts[i].returned

\* the edge web_research -> reflection fires when every task of the step returned
AllReturned(ts) == \A i \in DOMAIN ts : ts[i].returned

RECURSIVE Flatten(_, _)
\* the concatenation of field f of the worker outputs, in the order they returned
Flatten(ws, f) ==
    IF ws = <<>> THEN <<>>
    ELSE (IF f = "search_query" THEN Head(ws).search_query
          ELSE IF f = "web_research_result" THEN Head(ws).web_research_result
          ELSE Head(ws).sources_gathered) \o Flatten(Tail(ws), f)

----------------------------------------------------------------------------
(* Sufficiency evaluator and loop controller *)

\* outcomes of llm.with_structured_output(Reflection).invoke
ReflectionOutcomes ==
    { [raise |-> FALSE, error |-> [cls |-> "none", detail |-> ""],
       is_sufficient |-> b, knowledge_gap |-> <<"gap">>, follow_up_queries |-> fq]
        : b \in BOOLEAN,
          fq \in SeqsOf(FollowUpTexts, 0, MaxBatch) }
    \cup
    { [raise |-> TRUE, error |-> e, is_sufficient |-> FALSE,
       knowledge_gap |-> <<>>, follow_up_queries |-> <<>>] : e \in Errors }

\* the increment forgotten
loop_count_unchanged(count) == count

\* research_loop_count after reflection ran
next_loop_count(count) == count + 1

\* a fallback that asks for more research
reflection_fail_open(o, count, ran) ==
    [ is_sufficient         |-> IF o.raise THEN FALSE ELSE o.is_sufficient,
      knowledge_gap         |-> o.knowledge_gap,
      follow_up_queries     |-> o.follow_up_queries,
      research_loop_count   |-> count + 1,
      number_of_ran_queries |-> Len(ran) ]

\* the ReflectionState reflection returns
reflection(o, count, ran) ==
    IF o.raise
    THEN [ is_sufficient |-> TRUE,
           knowledge_gap |->
               IF IsInstance(o.error, "GoogleAPIError")
               THEN <<"Unable to perform reflection due to API error:", o.error.detail>>
               ELSE <<"Unable to perform reflection due to unexpected error:",
                      o.error.detail>>,
           follow_up_queries     |-> <<>>,
           research_loop_count   |-> next_loop_count(count),
           number_of_ran_queries |-> Len(ran) ]
    ELSE [ is_sufficient         |-> o.is_sufficient,
           knowledge_gap         |-> o.knowledge_gap,
           follow_up_queries     |-> o.follow_up_queries,
           research_loop_count   |-> next_loop_count(count),
           number_of_ran_queries |-> Len(ran) ]

\* the limit compared with > instead of >=
routes_to_finalize_late(sufficient, count, max_loops) ==
    sufficient \/ count > max_loops

\* the loop limit is not tested
routes_to_finalize_unbounded(sufficient, count, max_loops) == sufficient

\* evaluate_research: route to finalize_answer
routes_to_finalize(sufficient, count, max_loops) ==
    sufficient \/ count >= max_loops

\* the follow-up ids restart at 0 in every round
follow_up_sends_restart(fq, ran) == Sends(fq, 0)

\* only the first follow-up query is sent
follow_up_sends_first(fq, ran) == Sends(IF fq = <<>> THEN fq ELSE <<Head(fq)>>, ran)

\* evaluate_research: the Send objects of the follow-up queries
follow_up_sends(fq, ran) == Sends(fq, ran)

----------------------------------------------------------------------------
(* Answer finalizer *)

\* text[i:].startswith(h)
StartsWithAt(text, h, i) ==
    /\ i + Len(h) - 1 <= Len(text)
    /\ SubSeq(text, i, i + Len(h) - 1) = h

\* h in text
Contains(text, h) == \E i \in 1..Len(text) : StartsWithAt(text, h, i)

RECURSIVE ReplaceFrom(_, _, _, _)
ReplaceFrom(text, h, v, i) ==
    IF i > Len(text) THEN <<>>
    ELSE IF StartsWithAt(text, h, i)
    THEN v \o ReplaceFrom(text, h, v, i + Len(h))
    ELSE <<text[i]>> \o ReplaceFrom(text, h, v, i + 1)

\* only the first occurrence is replaced: text.replace(h, v, 1)
ReplaceFirst(text, h, v) ==
    IF ~Contains(text, h) THEN text
    ELSE LET i == CHOOSE j \in 1..Len(text) :
                      /\ StartsWithAt(text, h, j)
                      /\ \A k \in 1..(j - 1) : ~StartsWithAt(text, h, k)
         IN SubSeq(text, 1, i - 1) \o v \o SubSeq(text, i + Len(h), Len(text))

\* text.replace(h, v)
Replace(text, h, v) == ReplaceFrom(text, h, v, 1)

RECURSIVE cite_sources_no_rewrite(_, _, _)
\* a cited source is kept but its handle is left in the text
cite_sources_no_rewrite(content, sources, unique_sources) ==
    IF sources = <<>>
    THEN [content |-> content, unique_sources |-> unique_sources]
    ELSE IF Contains(content, Head(sources).short_url)
    THEN cite_sources_no_rewrite(content, Tail(sources),
                                 Append(unique_sources, Head(sources)))
    ELSE cite_sources_no_rewrite(content, Tail(sources), unique_sources)

RECURSIVE cite_sources(_, _, _)
\* the loop of finalize_answer over state["sources_gathered"]
cite_sources(content, sources, unique_sources) ==
    IF sources = <<>>
    THEN [content |-> content, unique_sources |-> unique_sources]
    ELSE IF Contains(content, Head(sources).short_url)
    THEN cite_sources(Replace(content, Head(sources).short_url, Head(sources).value),
                      Tail(sources), Append(unique_sources, Head(sources)))
    ELSE cite_sources(content, Tail(sources), unique_sources)

RECURSIVE research_results_section_short(_, _)
\* the last accumulated result is left out of the report
research_results_section_short(results, i) ==
    IF i >= Len(results) THEN <<>>
    ELSE <<"### Research Result">> \o ToStr(i) \o results[i] \o <<"\n\n">>
         \o research_results_section_short(results, i + 1)

RECURSIVE research_results_section(_, _)
\* the "### Research Result i" entries of the fallback report, from entry i on
research_results_section(results, i) ==
    IF i > Len(results) THEN <<>>
    ELSE <<"### Research Result">> \o ToStr(i) \o results[i] \o <<"\n\n">>
         \o research_results_section(results, i + 1)

\* the fallback report of finalize_answer
fallback_content(error, results) ==
    <<"# Research Summary">>
    \o (IF IsInstance(error, "GoogleAPIError")
        THEN <<"Note: Unable to generate final summary due to API quota exhaustion.">>
        ELSE <<"Note: Unable to generate final summary due to an error:", error.detail>>)
    \o <<"## Available Research Results:">>
    \o research_results_section(results, 1)

RECURSIVE AllHandles(_)
AllHandles(sources) ==
    IF sources = <<>> THEN <<>>
    ELSE Head(sources).short_url \o <<",">> \o AllHandles(Tail(sources))

\* outcomes of llm.invoke in finalize_answer
AnswerOutcomes(sources) ==
    { [raise |-> FALSE, error |-> [cls |-> "none", detail |-> ""], content |-> c]
        : c \in { <<"See">> \o AllHandles(sources) }
             \cup { <<"See">> \o sources[i].short_url \o <<".">>
                      : i \in DOMAIN sources \cap {1} } }
    \cup
    { [raise |-> TRUE, error |-> e, content |-> <<>>] : e \in Errors }

\* the state update finalize_answer returns
finalize_answer(o, results, sources) ==
    IF o.raise
    THEN [ content |-> fallback_content(o.error, results),
           sources_gathered |-> sources ]
    ELSE [ content |-> cite_sources(o.content, sources, <<>>).content,
           sources_gathered |-> cite_sources(o.content, sources, <<>>).unique_sources ]

----------------------------------------------------------------------------
(* The graph *)

Init ==
    /\ pc = "generate_query"
    /\ \E topic \in Topics : messages = <<[type |-> "human", content |-> topic]>>
    /\ max_research_loops \in (-1)..MaxLoops
    /\ query_list = <<>>
    /\ tasks = <<>>
    /\ writes = <<>>
    /\ search_query = <<>>
    /\ web_research_result = <<>>
    /\ sources_gathered = <<>>
    /\ research_loop_count = 0
    /\ is_sufficient = FALSE
    /\ knowledge_gap = <<>>
    /\ follow_up_queries = <<>>
    /\ number_of_ran_queries = 0
    /\ hist = [ evals |-> 0, finals |-> 0, batches |-> 0, returns |-> 0,
                ids |-> <<>>, degraded |-> FALSE, eval_failed |-> FALSE,
                plan_failed |-> FALSE, outs |-> <<>>, produced |-> <<>>,
                final |-> [ failed |-> FALSE, content |-> <<>>,
                            sources |-> <<>>, reported |-> <<>> ] ]

\* node generate_query
GenerateQuery ==
    /\ pc = "generate_query"
    /\ \E o \in PlannerOutcomes :
          /\ Len(o.query) <= MaxTasks
          /\ query_list' = generate_query_result(get_research_topic(messages), o)
          /\ hist' = [hist EXCEPT !.plan_failed = o.raise]
    /\ pc' = "continue_to_web_research"
    /\ UNCHANGED <<messages, max_research_loops, tasks, writes, search_query,
                   web_research_result, sources_gathered, research_loop_count,
                   is_sufficient, knowledge_gap, follow_up_queries,
                   number_of_ran_queries>>

\* what is recorded for a task that has not returned
NotReturned ==
    [ o   |-> [kind |-> "none", error |-> [cls |-> "none", detail |-> ""],
               text |-> <<>>, chunks |-> 0],
      out |-> <<>> ]

\* the ids of a sequence of Send objects
IdsOf(ts) == [i \in DOMAIN ts |-> ts[i].id]

\* a step of the graph with the given Send objects: no task ends the run
Dispatch(ts) ==
    /\ tasks' = ts
    /\ writes' = <<>>
    /\ pc' = IF ts = <<>> THEN "END" ELSE "web_research"
    /\ hist' = [hist EXCEPT !.ids = @ \o IdsOf(ts),
                            !.batches = IF ts = <<>> THEN @ ELSE @ + 1,
                            !.outs = [i \in DOMAIN ts |-> NotReturned]]

\* conditional edge generate_query -> web_research
ContinueToWebResearch ==
    /\ pc = "continue_to_web_research"
    /\ Dispatch(continue_to_web_research(query_list))
    /\ UNCHANGED <<messages, max_research_loops, query_list, search_query,
                   web_research_result, sources_gathered, research_loop_count,
                   is_sufficient, knowledge_gap, follow_up_queries,
                   number_of_ran_queries>>

\* node web_research: one task of the batch returns, in any order
WebResearch ==
    /\ pc = "web_research"
    /\ \E i \in DOMAIN tasks :
          /\ ~tasks[i].returned
          /\ \E o \in SearchOutcomes(tasks[i].search_query, tasks[i].id) :
                LET update == web_research(tasks[i], o) IN
                /\ writes' = Append(writes, update)
                /\ hist' = [hist EXCEPT !.returns = @ + 1,
                                        !.degraded = @ \/ Degraded(o),
                                        !.outs[i] = [o |-> o, out |-> <<update>>],
                                        !.produced = @ \o update.sources_gathered]
          /\ tasks' = [tasks EXCEPT ![i].returned = TRUE]
    /\ UNCHANGED <<pc, messages, max_research_loops, query_list, search_query,
                   web_research_result, sources_gathered, research_loop_count,
                   is_sufficient, knowledge_gap, follow_up_queries,
                   number_of_ran_queries>>

\* edge web_research -> reflection: the outputs of the batch are merged
Join ==
    /\ pc = "web_research"
    /\ writes # <<>>
    /\ AllReturned(tasks)
    /\ search_query' = Reduce(search_query, Flatten(writes, "search_query"))
    /\ web_research_result' =
          Reduce(web_research_result, Flatten(writes, "web_research_result"))
    /\ sources_gathered' =
          Reduce(sources_gathered, Flatten(writes, "sources_gathered"))
    /\ writes' = <<>>
    /\ tasks' = <<>>
    /\ hist' = [hist EXCEPT !.outs = <<>>]
    /\ pc' = "reflection"
    /\ UNCHANGED <<messages, max_research_loops, query_list, research_loop_count,
                   is_sufficient, knowledge_gap, follow_up_queries,
                   number_of_ran_queries>>

\* node reflection
Reflection ==
    /\ pc = "reflection"
    /\ \E o \in ReflectionOutcomes :
          LET r == reflection(o, research_loop_count, search_query) IN
          \* the model stops dispatching after MaxTasks research tasks
          /\ \/ routes_to_finalize(r.is_sufficient, r.research_loop_count,
                                   max_research_loops)
             \/ Len(search_query) + Len(r.follow_up_queries) <= MaxTasks
          /\ is_sufficient' = r.is_sufficient
          /\ knowledge_gap' = r.knowledge_gap
          /\ follow_up_queries' = r.follow_up_queries
          /\ research_loop_count' = r.research_loop_count
          /\ number_of_ran_queries' = r.number_of_ran_queries
          /\ hist' = [hist EXCEPT !.evals = @ + 1, !.eval_failed = o.raise]
    /\ pc' = "evaluate_research"
    /\ UNCHANGED <<messages, max_research_loops, query_list, tasks, writes,
                   search_query, web_research_result, sources_gathered>>

\* conditional edge reflection -> web_research | finalize_answer
EvaluateResearch ==
    /\ pc = "evaluate_research"
    /\ IF routes_to_finalize(is_sufficient, research_loop_count, max_research_loops)
       THEN /\ pc' = "finalize_answer"
            /\ UNCHANGED <<tasks, writes, hist>>
       ELSE Dispatch(follow_up_sends(follow_up_queries, number_of_ran_queries))
    /\ UNCHANGED <<messages, max_research_loops, query_list, search_query,
                   web_research_result, sources_gathered, research_loop_count,
                   is_sufficient, knowledge_gap, follow_up_queries,
                   number_of_ran_queries>>

\* the finalizer hands the run back to the evaluator
Finalize_then_reflect(o) ==
    LET r == finalize_answer(o, web_research_result, sources_gathered) IN
    /\ messages' = Append(messages, [type |-> "ai", content |-> r.content])
    /\ sources_gathered' = Reduce(sources_gathered, r.sources_gathered)
    /\ hist' = [hist EXCEPT !.finals = 1]
    /\ pc' = "reflection"
    /\ UNCHANGED <<max_research_loops, query_list, tasks, writes, search_query,
                   web_research_result, research_loop_count, is_sufficient,
                   knowledge_gap, follow_up_queries, number_of_ran_queries>>

\* finalize_answer with outcome o of its call; its update goes through the
\* reducers and the edge to END is taken
Finalize(o) ==
    LET r == finalize_answer(o, web_research_result, sources_gathered) IN
    /\ messages' = Append(messages, [type |-> "ai", content |-> r.content])
    /\ sources_gathered' = Reduce(sources_gathered, r.sources_gathered)
    /\ hist' = [hist EXCEPT !.finals = @ + 1,
                            !.final = [ failed   |-> o.raise,
                                        content  |-> o.content,
                                        sources  |-> sources_gathered,
                                        reported |-> r.sources_gathered ]]
    /\ pc' = "END"
    /\ UNCHANGED <<max_research_loops, query_list, tasks, writes, search_query,
                   web_research_result, research_loop_count, is_sufficient,
                   knowledge_gap, follow_up_queries, number_of_ran_queries>>

\* node finalize_answer and the edge to END
FinalizeAnswer ==
    /\ pc = "finalize_answer"
    /\ \E o \in AnswerOutcomes(sources_gathered) : Finalize(o)

Next ==
    \/ GenerateQuery
    \/ ContinueToWebResearch
    \/ WebResearch
    \/ Join
    \/ Reflection
    \/ EvaluateResearch
    \/ FinalizeAnswer

Spec == Init /\ [][Next]_vars

\* the scheduler runs every enabled node: no step of the graph is postponed forever
FairSpec == Spec /\ WF_vars(Next)

----------------------------------------------------------------------------
(* The finalizer on its own: finalize_answer applied to drawn sources and
   answer texts *)

\* most accumulated sources the finalizer is applied to
MaxSources == 3

\* source records: plain handles, a handle that is a prefix of another, and a
\* source whose value ends like the beginning of a handle
CiteRecords ==
    { [short_url |-> <<"[a]">>, value |-> <<"http://x">>, label |-> "a"],
      [short_url |-> <<"[c]">>, value |-> <<"http://z">>, label |-> "c"],
      [short_url |-> short_url(0, 1), value |-> <<"http://p">>, label |-> "p"],
      [short_url |-> short_url(0, 10), value |-> <<"http://q">>, label |-> "q"],
      [short_url |-> <<"[j]">>, value |-> <<"http://j/", "id/", "0", "-">>,
       label |-> "j"] }

\* answer texts of the language model
CiteTexts ==
    { <<"See", "[a]", "and", "[b]", ".">>,
      <<"[a]", "then", "[c]", "[a]">>,
      <<"See">> \o short_url(0, 10) \o <<"and">> \o short_url(0, 1),
      <<"See">> \o short_url(0, 1) \o <<"[j]", "1">>,
      <<"nothing", "cited">> }

CiteInit ==
    /\ pc = "finalize_answer"
    /\ messages = <<[type |-> "human", content |-> <<>>]>>
    /\ max_research_loops = 1
    /\ query_list = <<>>
    /\ tasks = <<>>
    /\ writes = <<>>
    /\ search_query = <<>>
    /\ web_research_result = <<>>
    /\ sources_gathered \in SeqsOf(CiteRecords, 0, MaxSources)
    /\ research_loop_count = 1
    /\ is_sufficient = TRUE
    /\ knowledge_gap = <<>>
    /\ follow_up_queries = <<>>
    /\ number_of_ran_queries = 0
    /\ hist = [ evals |-> 1, finals |-> 0, batches |-> 1, returns |-> 0,
                ids |-> <<>>, degraded |-> FALSE, eval_failed |-> FALSE,
                plan_failed |-> FALSE, outs |-> <<>>, produced |-> <<>>,
                final |-> [ failed |-> FALSE, content |-> <<>>,
                            sources |-> <<>>, reported |-> <<>> ] ]

\* finalize_answer on its success path with a drawn answer text
CiteFinalize ==
    /\ pc = "finalize_answer"
    /\ \E c \in CiteTexts :
          Finalize([raise |-> FALSE, error |-> [cls |-> "none", detail |-> ""],
                    content |-> c])

CiteNext == CiteFinalize

CiteSpec == CiteInit /\ [][CiteNext]_vars

----------------------------------------------------------------------------
(* Properties *)

\* C1 (as stated): the number of evaluations of a run never exceeds
\* max_research_loops, whatever its value (none at all when it is not positive).
C1_EvaluationsWithinMaxLoops == hist.evals <= Max(0, max_research_loops)

\* C1 (amended): the first round always runs, so the number of evaluations of
\* a run never exceeds max(1, max_research_loops), even when every evaluation
\* answers "not sufficient" with follow-up queries.
C1_EvaluationsWithinMaxLoopsOrOne ==
    /\ hist.evals <= Max(1, max_research_loops)
    /\ research_loop_count <= Max(1, max_research_loops)

\* the limit overrides an insufficient judgment that proposes follow-ups
C1_Witness ==
    /\ pc = "finalize_answer"
    /\ ~is_sufficient
    /\ follow_up_queries # <<>>
    /\ hist.evals = max_research_loops
    /\ max_research_loops >= 2

\* C2: every run that has ended ran finalize_answer exactly once and holds
\* exactly one answer message after the user's question.
C2_EndedRunHasOneAnswer ==
    pc = "END" =>
        /\ hist.finals = 1
        /\ Len(messages) = 2
        /\ messages[2].type = "ai"

\* C3: reflection runs only after every task of the batch has returned and
\* been merged, whatever the order of their return, and runs once per batch.
C3_JoinBeforeReflection ==
    /\ pc \in {"reflection", "evaluate_research"} =>
          /\ hist.returns = Len(hist.ids)
          /\ Len(web_research_result) = Len(hist.ids)
          /\ Len(search_query) = Len(hist.ids)
    /\ hist.evals <= hist.batches
    /\ pc = "reflection" => hist.evals = hist.batches - 1

\* a batch of two whose second task returned first is about to be evaluated
C3_Witness ==
    /\ pc = "reflection"
    /\ hist.batches = 1
    /\ query_list = << <<"qa">>, <<"qb">> >>
    /\ search_query = << <<"qb">>, <<"qa">> >>

\* C4: a run in which a research worker took a failure path still reaches
\* finalize_answer: once such a run has ended, the finalizer has run.
C4_DegradedRunIsFinalized ==
    (pc = "END" /\ hist.degraded) => hist.finals = 1

\* C5: after a failed evaluator call the evaluation is "sufficient" with no
\* follow-up queries and the run only finalizes: no research task is
\* dispatched, whatever research_loop_count and max_research_loops are.
C5_EvaluatorFailureFinalizes ==
    hist.eval_failed =>
        /\ is_sufficient
        /\ follow_up_queries = <<>>
        /\ tasks = <<>>
        /\ pc \in {"evaluate_research", "finalize_answer", "END"}
        /\ pc = "END" => hist.finals = 1

\* the evaluator failed while rounds remained and the run goes to the finalizer
C5_Witness ==
    /\ hist.eval_failed
    /\ pc = "finalize_answer"
    /\ research_loop_count < max_research_loops

\* C6: evaluate_research routes to finalize_answer exactly when is_sufficient
\* or research_loop_count >= max_research_loops, dispatching nothing; otherwise
\* it dispatches exactly one task per follow-up query, in order.
C6_RoutingDecision ==
    [][ pc = "evaluate_research" =>
          /\ (pc' = "finalize_answer") <=>
                (is_sufficient \/ research_loop_count >= max_research_loops)
          /\ pc' = "finalize_answer" =>
                /\ tasks' = <<>>
                /\ hist'.ids = hist.ids
          /\ pc' # "finalize_answer" =>
                /\ Len(tasks') = Len(follow_up_queries)
                /\ \A i \in DOMAIN tasks' :
                      /\ tasks'[i].search_query = follow_up_queries[i]
                      /\ ~tasks'[i].returned
                /\ Len(hist'.ids) = Len(hist.ids) + Len(follow_up_queries) ]_vars

\* a follow-up batch of two has been fanned out
C6_Witness ==
    /\ pc = "web_research"
    /\ hist.batches = 2
    /\ Len(follow_up_queries) = 2
    /\ Len(tasks) = 2

\* C7: an evaluation "not sufficient" without follow-up queries while rounds
\* remain is routed to finalize_answer, so the finalizer runs.
C7_EmptyFollowUpsFinalize ==
    ( /\ hist.evals >= 1
      /\ ~is_sufficient
      /\ follow_up_queries = <<>>
      /\ research_loop_count < max_research_loops
      /\ pc # "evaluate_research" )
    => \/ pc = "finalize_answer"
       \/ pc = "END" /\ hist.finals = 1

\* C8: research_loop_count starts at 0 and is the number of evaluations run so
\* far, one per joined batch: workers, re-entering web_research and the
\* finalizer leave it alone.
C8_LoopCountCountsEvaluations ==
    /\ research_loop_count = hist.evals
    /\ pc \in {"generate_query", "continue_to_web_research"} =>
          research_loop_count = 0
    /\ pc \in {"web_research", "reflection"} =>
          research_loop_count = hist.batches - 1
    /\ pc \in {"evaluate_research", "finalize_answer"} =>
          research_loop_count = hist.batches

\* the second evaluation failed and still counted
C8_Witness ==
    /\ pc = "finalize_answer"
    /\ hist.eval_failed
    /\ research_loop_count = 2

\* C9: the ids of the research tasks continue the count of executed queries:
\* the n-th task dispatched in a run has id n - 1, so no two tasks of a run,
\* of the same round or not, share an id.
C9_TaskIdsDistinct ==
    /\ \A i \in DOMAIN hist.ids : hist.ids[i] = i - 1
    /\ \A i, j \in DOMAIN hist.ids : i # j => hist.ids[i] # hist.ids[j]
    /\ \A i \in DOMAIN tasks :
          tasks[i].id = Len(hist.ids) - Len(tasks) + (i - 1)

\* a follow-up batch runs after an initial batch
C9_Witness ==
    /\ pc = "web_research"
    /\ hist.batches = 2
    /\ Len(hist.ids) >= 2
    /\ tasks[1].id >= 1

\* C10: generate_query never returns an empty query list and never an empty
\* query, for any topic and any outcome of its call.
C10_PlannerQueriesNonEmpty ==
    pc # "generate_query" =>
        /\ query_list # <<>>
        /\ \A i \in DOMAIN query_list : Len(query_list[i]) >= 1

\* C11: after a failure of the planner's call the query list is the single
\* query made of the first 100 characters of the topic, and the run goes on to
\* web_research with exactly one task, whose id is 0.
C11_PlannerFailureOneFallbackTask ==
    (hist.plan_failed /\ pc # "generate_query") =>
        LET topic == messages[1].content IN
        /\ Len(query_list) = 1
        /\ Len(query_list[1]) = (IF Len(topic) <= 100 THEN Len(topic) ELSE 100)
        /\ \A k \in 1..Len(query_list[1]) : query_list[1][k] = topic[k]
        /\ pc # "continue_to_web_research" =>
              /\ hist.batches >= 1
              /\ hist.ids[1] = 0
              /\ hist.batches = 1 => Len(hist.ids) = 1
        /\ (pc = "web_research" /\ hist.batches = 1) =>
              /\ Len(tasks) = 1
              /\ tasks[1].id = 0
              /\ tasks[1].search_query = query_list[1]

\* the planner failed on a topic longer than the limit and one task is running
C11_Witness ==
    /\ hist.plan_failed
    /\ pc = "web_research"
    /\ hist.batches = 1
    /\ Len(messages[1].content) > 100
    /\ Len(tasks[1].search_query) = 100

\* the text with the leftmost occurrences of handle h replaced by v, one after
\* the other: the statement of "every occurrence is replaced"
RECURSIVE C12_AllReplaced(_, _, _)
C12_AllReplaced(text, h, v) ==
    IF ~Contains(text, h) THEN text
    ELSE LET i == CHOOSE j \in 1..Len(text) :
                      /\ StartsWithAt(text, h, j)
                      /\ \A k \in 1..(j - 1) : ~StartsWithAt(text, h, k)
         IN SubSeq(text, 1, i - 1) \o v
            \o C12_AllReplaced(SubSeq(text, i + Len(h), Len(text)), h, v)

\* the answer text as it stands after the first k sources
RECURSIVE C12_TextAfter(_, _, _)
C12_TextAfter(text, sources, k) ==
    IF k = 0 THEN text
    ELSE LET before == C12_TextAfter(text, sources, k - 1) IN
         IF Contains(before, sources[k].short_url)
         THEN C12_AllReplaced(before, sources[k].short_url, sources[k].value)
         ELSE before

\* the sources among the first k whose handle occurs when they are reached
RECURSIVE C12_KeptAmong(_, _, _)
C12_KeptAmong(text, sources, k) ==
    IF k = 0 THEN <<>>
    ELSE C12_KeptAmong(text, sources, k - 1)
         \o (IF Contains(C12_TextAfter(text, sources, k - 1), sources[k].short_url)
             THEN <<sources[k]>> ELSE <<>>)

\* C12: on the success path the finalizer keeps exactly the sources whose handle
\* occurs in the answer text as it stands when they are reached, replaces every
\* occurrence of a kept handle by the source's value and leaves the text alone
\* for a dropped source; "See [a] and [b]." with sources [a], [c] gives
\* "See http://x and [b]." and only the [a] source.
C12_FinalizerKeepsCitedSources ==
    (pc = "END" /\ ~hist.final.failed) =>
        LET text    == hist.final.content
            sources == hist.final.sources
            answer  == messages[Len(messages)].content
        IN
        /\ answer = C12_TextAfter(text, sources, Len(sources))
        /\ hist.final.reported = C12_KeptAmong(text, sources, Len(sources))
        /\ ( /\ text = <<"See", "[a]", "and", "[b]", ".">>
             /\ Len(sources) = 2
             /\ sources[1].short_url = <<"[a]">>
             /\ sources[2].short_url = <<"[c]">> )
           => /\ answer = <<"See", "http://x", "and", "[b]", ".">>
              /\ hist.final.reported = <<sources[1]>>

\* the example of the specification has been finalized
C12_Witness ==
    /\ pc = "END"
    /\ hist.final.content = <<"See", "[a]", "and", "[b]", ".">>
    /\ Len(hist.final.sources) = 2
    /\ hist.final.sources[1].short_url = <<"[a]">>
    /\ hist.final.sources[2].short_url = <<"[c]">>
    /\ messages[2].content = <<"See", "http://x", "and", "[b]", ".">>

\* the number of tokens the report spends on the first k results: a heading,
\* the result's number, the result and a blank line each
RECURSIVE C13_EntriesLen(_, _)
C13_EntriesLen(results, k) ==
    IF k = 0 THEN 0
    ELSE C13_EntriesLen(results, k - 1) + 1 + Len(ToStr(k)) + Len(results[k]) + 1

\* C13: when the finalizer's call fails the run still ends with an answer: a
\* report that begins with a title and an explanatory note and then holds
\* every accumulated research result verbatim, once each and in accumulated
\* order, and nothing else; the reported sources are the accumulated sources,
\* unfiltered.
C13_FallbackReportListsEveryResult ==
    (pc = "END" /\ hist.final.failed) =>
        LET answer  == messages[Len(messages)].content
            results == web_research_result
            \* title, note (with the error text after an unexpected error), heading
            intro   == IF answer[2] =
                          "Note: Unable to generate final summary due to an error:"
                       THEN 4 ELSE 3
        IN
        /\ messages[Len(messages)].type = "ai"
        /\ answer[1] = "# Research Summary"
        /\ answer[2] \in
              { "Note: Unable to generate final summary due to API quota exhaustion.",
                "Note: Unable to generate final summary due to an error:" }
        /\ Len(answer) = intro + C13_EntriesLen(results, Len(results))
        /\ \A i \in DOMAIN results :
              LET start == intro + C13_EntriesLen(results, i - 1) + 1 + Len(ToStr(i))
              IN SubSeq(answer, start + 1, start + Len(results[i])) = results[i]
        /\ hist.final.reported = hist.final.sources

\* the finalizer failed with two different results and a source accumulated
C13_Witness ==
    /\ pc = "END"
    /\ hist.final.failed
    /\ Len(web_research_result) >= 2
    /\ web_research_result[1] # web_research_result[2]
    /\ hist.final.sources # <<>>

\* C14: the fallback policy puts every failure of a worker in exactly one of
\* three classes (a quota error in the quota class although it is a service
\* error too, an empty response in the unexpected class), returns that
\* class's message with the query in it, shows the error's detail for the
\* service class only, and returns no citation.
C14_FallbackPolicy ==
    \A i \in DOMAIN hist.outs :
        LET o == hist.outs[i].o IN
        Degraded(o) =>
            LET q      == tasks[i].search_query
                r      == hist.outs[i].out[1]
                msg    == r.web_research_result[1]
                detail == IF o.kind = "empty" THEN "Empty response from API"
                          ELSE o.error.detail
                class  == IF o.kind = "empty" THEN "Unexpected"
                          ELSE IF o.error.cls = "ResourceExhausted" THEN "Quota"
                          ELSE IF o.error.cls = "GoogleAPIError" THEN "Service"
                          ELSE "Unexpected"
                header == [ Quota      |-> "API Quota Exhausted",
                            Service    |-> "Search API Error",
                            Unexpected |-> "Research Error" ]
            IN
            /\ Len(r.web_research_result) = 1
            /\ \A c \in DOMAIN header :
                  (\E k \in DOMAIN msg : msg[k] = header[c]) <=> c = class
            /\ SubSeq(msg, 3, 2 + Len(q)) = q
            /\ (\E k \in DOMAIN msg : msg[k] = detail) <=> class = "Service"
            /\ r.search_query = <<q>>
            /\ r.sources_gathered = <<>>

\* a quota error and an empty response in one batch
C14_Witness ==
    /\ pc = "web_research"
    /\ \E i, j \in DOMAIN hist.outs :
          /\ hist.outs[i].o.kind = "raise"
          /\ hist.outs[i].o.error.cls = "ResourceExhausted"
          /\ hist.outs[j].o.kind = "empty"

\* the number of times x occurs in a sequence
C15_Count(seq, x) == Cardinality({k \in DOMAIN seq : seq[k] = x})

\* two sequences hold the same elements the same number of times
C15_SameBag(a, b) ==
    /\ Len(a) = Len(b)
    /\ \A k \in DOMAIN a : C15_Count(a, a[k]) = C15_Count(b, a[k])

\* the values f gives for the tasks 1..k of the batch, taken in task order
RECURSIVE C15_InTaskOrder(_, _, _)
C15_InTaskOrder(outs, f, k) ==
    IF k = 0 THEN <<>>
    ELSE C15_InTaskOrder(outs, f, k - 1)
         \o (IF f = "search_query" THEN outs[k].out[1].search_query
             ELSE IF f = "web_research_result" THEN outs[k].out[1].web_research_result
             ELSE outs[k].out[1].sources_gathered)

\* C15: the join of a batch of K tasks appends K results and the K queries
\* of the batch, one result, its own query and its own citations per task;
\* what is appended to the results, the queries and the sources is, as a
\* multiset, what the tasks returned, whatever the order they returned in,
\* and the evaluator is entered with as many results as queries.
C15_FanInOrderIndependent ==
    [][ (pc = "web_research" /\ pc' = "reflection") =>
          LET K    == Len(tasks)
              outs == hist.outs
              new(old, now) == SubSeq(now, Len(old) + 1, Len(now))
          IN
          /\ Len(web_research_result') = Len(web_research_result) + K
          /\ Len(search_query') = Len(search_query) + K
          /\ SubSeq(web_research_result', 1, Len(web_research_result))
                = web_research_result
          /\ SubSeq(search_query', 1, Len(search_query)) = search_query
          /\ SubSeq(sources_gathered', 1, Len(sources_gathered)) = sources_gathered
          /\ \A i \in 1..K :
                /\ Len(outs[i].out[1].web_research_result) = 1
                /\ outs[i].out[1].search_query = <<tasks[i].search_query>>
                /\ \A k \in DOMAIN outs[i].out[1].sources_gathered :
                      LET own == <<"id/">> \o ToStr(tasks[i].id) \o <<"-">> IN
                      SubSeq(outs[i].out[1].sources_gathered[k].short_url,
                             1, Len(own)) = own
          /\ C15_SameBag(new(search_query, search_query'),
                         [i \in 1..K |-> tasks[i].search_query])
          /\ C15_SameBag(new(web_research_result, web_research_result'),
                         C15_InTaskOrder(outs, "web_research_result", K))
          /\ C15_SameBag(new(sources_gathered, sources_gathered'),
                         C15_InTaskOrder(outs, "sources_gathered", K))
          /\ Len(web_research_result') = Len(search_query')
      ]_vars

\* the second task of a batch returned first, one task of the batch failed
\* and the other one found sources; the batch has been joined
C15_Witness ==
    /\ pc = "reflection"
    /\ query_list = << <<"qa">>, <<"qb">> >>
    /\ search_query = << <<"qb">>, <<"qa">> >>
    /\ sources_gathered # <<>>
    /\ hist.degraded

\* C16: every source record a worker produced occurs in the accumulated
\* sources as many times as the workers produced it, once the worker's batch
\* is merged and up to and after the finalizer's write of its reported
\* sources: the finalizer adds nothing to the accumulated sources, duplicates
\* nothing in them and alters none of them.
C16_SourcesOccurAsProduced ==
    LET merged == Reduce(sources_gathered, Flatten(writes, "sources_gathered")) IN
    /\ Len(merged) = Len(hist.produced)
    /\ \A k \in DOMAIN hist.produced :
          Cardinality({j \in DOMAIN merged : merged[j] = hist.produced[k]})
             = Cardinality({j \in DOMAIN hist.produced :
                               hist.produced[j] = hist.produced[k]})
    /\ pc = "END" /\ hist.finals = 1 => sources_gathered = hist.final.sources

\* a is an initial part of b
C17_IsPrefix(a, b) == Len(a) <= Len(b) /\ SubSeq(b, 1, Len(a)) = a

\* C17: the results and the executed queries only grow at their end: in
\* every step (a worker's return, a join, an evaluation that succeeds or
\* fails, the dispatch of a further round, the finalizer) the value before is
\* an initial part of the value after, and an evaluation starts with the
\* results of every task dispatched so far.
C17_ResultsAndQueriesAppendOnly ==
    [][ /\ C17_IsPrefix(web_research_result, web_research_result')
        /\ C17_IsPrefix(search_query, search_query')
        /\ (pc = "reflection" /\ pc' = "evaluate_research") =>
              /\ Len(web_research_result) = Len(hist.ids)
              /\ web_research_result' = web_research_result
      ]_vars

\* a run of two rounds has been finalized with the results of both rounds
C17_Witness ==
    /\ pc = "END"
    /\ hist.finals = 1
    /\ hist.batches = 2
    /\ Len(web_research_result) = Len(hist.ids)
    /\ Len(web_research_result) >= 2

\* no two records of the list have the same handle
C18_HandlesDistinct(list) ==
    \A i, j \in DOMAIN list : list[i].short_url = list[j].short_url => i = j

\* no value of a source contains the handle of a source
C18_NoValueContainsHandle(sources) ==
    \A i, j \in DOMAIN sources : ~Contains(sources[i].value, sources[j].short_url)

\* the last k elements of a sequence
C18_End(seq, k) == SubSeq(seq, Len(seq) - k + 1, Len(seq))

\* no value is empty and no value overlaps a handle: neither contains the
\* other, no end of a value begins a handle and no beginning of a value ends one
C18_NoOverlap(sources) ==
    \A i, j \in DOMAIN sources :
        LET v == sources[i].value
            h == sources[j].short_url
        IN
        /\ v # <<>>
        /\ ~Contains(v, h)
        /\ ~Contains(h, v)
        /\ \A k \in 1..Len(v) :
              k <= Len(h) =>
                  /\ C18_End(v, k) # SubSeq(h, 1, k)
                  /\ SubSeq(v, 1, k) # C18_End(h, k)

C19_FirstRoundAlwaysRuns ==
    /\ (query_list # <<>> /\ hist.evals = 0) =>
          /\ pc \in {"continue_to_web_research", "web_research", "reflection"}
          /\ ENABLED Next
    /\ (query_list # <<>> /\ pc \in {"finalize_answer", "END"}) => hist.evals >= 1
    /\ hist.evals <= (IF max_research_loops > 1 THEN max_research_loops ELSE 1)
    /\ max_research_loops <= 1 => hist.batches <= 1

\* with a limit of zero or less the first round was evaluated, found
\* insufficient with follow-ups proposed, and the run goes to the finalizer
C19_Witness ==
    /\ max_research_loops <= 0
    /\ pc = "finalize_answer"
    /\ hist.evals = 1
    /\ hist.batches = 1
    /\ ~is_sufficient
    /\ follow_up_queries # <<>>

\* C20: once evaluate_research has chosen the finalizer no research task is
\* dispatched and no evaluation runs: the loop count, the results and the
\* executed queries stay as they are; the finalizer's step appends the
\* answer as the last message and ends the run, and an ended run takes no
\* further step.
C20_FinalizingIsFinal ==
    [][ /\ pc \in {"finalize_answer", "END"} =>
              /\ hist.ids' = hist.ids
              /\ hist.batches' = hist.batches
              /\ hist.evals' = hist.evals
              /\ tasks' = tasks
              /\ research_loop_count' = research_loop_count
              /\ web_research_result' = web_research_result
              /\ search_query' = search_query
        /\ pc = "finalize_answer" =>
              /\ pc' = "END"
              /\ hist.finals' = 1
              /\ Len(messages') = Len(messages) + 1
              /\ SubSeq(messages', 1, Len(messages)) = messages
              /\ messages'[Len(messages')].type = "ai"
        /\ pc = "END" => vars' = vars
      ]_vars

\* the finalizer was chosen on sufficiency, with follow-ups proposed and
\* rounds left, and the run has ended with its answer
C20_Witness ==
    /\ pc = "END"
    /\ hist.finals = 1
    /\ is_sufficient
    /\ follow_up_queries # <<>>
    /\ research_loop_count < max_research_loops
    /\ messages[Len(messages)].type = "ai"

====
